---- MODULE Spec2Model ----
(***************************************************************************)
(* Model of simuCRNs' mass action core (src/simuCRNs/massActionCRN.py):    *)
(* the reaction-string parser massActionJSON and the model construction    *)
(* and derivative function of massActionCRN.                               *)
(*                                                                         *)
(* Representation.  A Python str is a sequence of one-character strings,   *)
(* so that replace, split, `in` and slicing are computed character by      *)
(* character.  A float is a fixed-point integer: stoichiometric            *)
(* coefficients and rates are counted in units of 1, concentrations in     *)
(* units of 10^-9 (Nano).  An OrderedDict is a sequence of <<key, value>>  *)
(* pairs with unique keys.  A numpy vector is a sequence of integers, a    *)
(* matrix a sequence of rows.  A raised exception is a value of err other  *)
(* than "none".                                                            *)
(***************************************************************************)
EXTENDS Integers, Sequences, FiniteSets, TLC

VARIABLES
    json_species,      \* json_dict['species']: <<name, value string>> pairs
    json_reactions,    \* json_dict['reactions']: <<reaction string, rate strings>> pairs
    pc,                \* position of the caller: "start", "returned", "raised", "evaluated"
    err,               \* the exception raised, "none" when there is none
    species_name,      \* massActionJSON._species_name / massActionCRN._species_name
    x0,                \* _x0: OrderedDict name -> float (nano units)
    rates,             \* _rates: OrderedDict rate name -> float
    reactions,         \* _reactions: OrderedDict reaction string -> list of terms
    x0_np,             \* massActionCRN._x0_np
    rates_np,          \* massActionCRN._rates_np
    reaction_list,     \* massActionCRN._reaction_list
    reactants_matrix,  \* massActionCRN._reactants_matrix
    gamma,             \* massActionCRN._gamma
    reaction_str,      \* argument of a direct call of _parse_reaction
    parsed,            \* value returned by that call
    x,                 \* argument x of the derivative function f
    t0,                \* argument t0 of f
    dx                 \* value returned by f

vars == <<json_species, json_reactions, pc, err, species_name, x0, rates,
          reactions, x0_np, rates_np, reaction_list, reactants_matrix, gamma,
          reaction_str, parsed, x, t0, dx>>

----------------------------------------------------------------------------
(* Python str and float primitives *)

\* str.replace(" ", "")
RemoveSpaces(s) == SelectSeq(s, LAMBDA ch : ch # " ")

\* sub in s
Contains(s, sub) ==
    \E i \in 1..(Len(s) - Len(sub) + 1) : SubSeq(s, i, i + Len(sub) - 1) = sub

\* index of the first occurrence of sub in s, 0 when there is none
FindFirst(s, sub) ==
    LET hits == {i \in 1..(Len(s) - Len(sub) + 1) :
                    SubSeq(s, i, i + Len(sub) - 1) = sub}
    IN  IF hits = {} THEN 0 ELSE CHOOSE i \in hits : \A k \in hits : i <= k

\* str.split(sep): non-overlapping occurrences, left to right
RECURSIVE Split(_, _)
Split(s, sep) ==
    LET i == FindFirst(s, sep)
    IN  IF i = 0 THEN <<s>>
        ELSE <<SubSeq(s, 1, i - 1)>> \o Split(SubSeq(s, i + Len(sep), Len(s)), sep)

\* the regular expression [a-zA-Z]
Alpha == {"a","b","c","d","e","f","g","h","i","j","k","l","m","n","o","p","q",
          "r","s","t","u","v","w","x","y","z","A","B","C","D","E","F","G","H",
          "I","J","K","L","M","N","O","P","Q","R","S","T","U","V","W","X","Y",
          "Z"}

Digits == <<"0","1","2","3","4","5","6","7","8","9">>
IsDigit(ch) == \E d \in 1..10 : Digits[d] = ch
DigitVal(ch) == (CHOOSE d \in 1..10 : Digits[d] = ch) - 1

RECURSIVE Pow(_, _)
Pow(b, e) == IF e = 0 THEN 1 ELSE b * Pow(b, e - 1)

RECURSIVE DecVal(_)
DecVal(s) == IF s = <<>> THEN 0
             ELSE 10 * DecVal(SubSeq(s, 1, Len(s) - 1)) + DigitVal(s[Len(s)])

\* the digits after the point, in units of 1/unit
RECURSIVE FracVal(_, _)
FracVal(s, unit) == IF s = <<>> THEN 0
                    ELSE DigitVal(s[1]) * (unit \div 10) + FracVal(Tail(s), unit \div 10)

AllDigits(s) == \A i \in 1..Len(s) : IsDigit(s[i])

\* float(s), the value counted in units of 1/unit: an optional sign, digits,
\* an optional point and digits; anything else is a ValueError.  Exact when
\* the fraction is a whole number of units.
Float(s, unit) ==
    LET signed == s # <<>> /\ s[1] \in {"-", "+"}
        body   == IF signed THEN SubSeq(s, 2, Len(s)) ELSE s
        dot    == FindFirst(body, <<".">>)
        ipart  == IF dot = 0 THEN body ELSE SubSeq(body, 1, dot - 1)
        fpart  == IF dot = 0 THEN <<>> ELSE SubSeq(body, dot + 1, Len(body))
        ok     == /\ AllDigits(ipart) /\ AllDigits(fpart)
                  /\ Len(ipart) + Len(fpart) > 0
        mag    == DecVal(ipart) * unit + FracVal(fpart, unit)
    IN  IF ~ok THEN [err |-> "ValueError", val |-> 0]
        ELSE [err |-> "none",
              val |-> IF signed /\ s[1] = "-" THEN 0 - mag ELSE mag]

\* list.index(e): the first position of e, 0 when e is not in the list
IndexOf(seq, e) ==
    LET hits == {i \in 1..Len(seq) : seq[i] = e}
    IN  IF hits = {} THEN 0 ELSE CHOOSE i \in hits : \A k \in hits : i <= k

\* np.zeros(n)
Zeros(n) == [i \in 1..n |-> 0]

\* -1 * v
Neg(v) == [i \in 1..Len(v) |-> 0 - v[i]]

\* a + b on vectors of one length
VecAdd(a, b) == [i \in 1..Len(a) |-> a[i] + b[i]]

Abs(n) == IF n < 0 THEN 0 - n ELSE n

\* OrderedDict: d[k] = v keeps the position of a key already present
DictSet(d, k, v) ==
    IF \E i \in 1..Len(d) : d[i][1] = k
    THEN [i \in 1..Len(d) |-> IF d[i][1] = k THEN <<k, v>> ELSE d[i]]
    ELSE Append(d, <<k, v>>)

Keys(d) == [i \in 1..Len(d) |-> d[i][1]]
Values(d) == [i \in 1..Len(d) |-> d[i][2]]

----------------------------------------------------------------------------
(* massActionJSON *)

SpecieKnownAlways(specie_name, names) == TRUE

\* specie_name in self._species_name
SpecieKnown(specie_name, names) == IndexOf(names, specie_name) # 0

\* _get_specie_and_stoc: <specie_name>, <float> of a term such as 2X
GetSpecieAndStoc(specie_in_reac, names) ==
    LET letters == {i \in 1..Len(specie_in_reac) : specie_in_reac[i] \in Alpha}
        i_first_letter == IF letters = {} THEN 0
                          ELSE CHOOSE i \in letters : \A k \in letters : i <= k
        specie_name == SubSeq(specie_in_reac, i_first_letter, Len(specie_in_reac))
        specie_coeff_str == SubSeq(specie_in_reac, 1, i_first_letter - 1)
        f == Float(specie_coeff_str, 1)
    IN  IF i_first_letter = 0
          THEN [err |-> "TypeError: No specie found", name |-> <<>>, coeff |-> 0]
        ELSE IF ~SpecieKnown(specie_name, names)
          THEN [err |-> "TypeError: specie not found in species list",
                name |-> <<>>, coeff |-> 0]
        ELSE IF specie_coeff_str = <<>>
          THEN [err |-> "none", name |-> specie_name, coeff |-> 1]
        ELSE IF f.err # "none"
          THEN [err |-> "ValueError: could not convert string to float",
                name |-> <<>>, coeff |-> 0]
        ELSE [err |-> "none", name |-> specie_name, coeff |-> f.val]

SideEntrySum(old, i_side, coeff) ==
    old + (IF i_side = 0 THEN (0 - 1) * coeff ELSE coeff)

\* reaction_side[ index ] = -1*coeff if i_side == 0 else coeff
SideEntry(old, i_side, coeff) == IF i_side = 0 THEN (0 - 1) * coeff ELSE coeff

\* the loop of _parse_reaction over the terms of one side, from term k on:
\* FillSide gets the name and coefficient r of term k, FillTerm assigns the
\* entry of the side's vector at the name's index
RECURSIVE FillSide(_, _, _, _, _)
RECURSIVE FillTerm(_, _, _, _, _, _, _)
FillTerm(species_split, i_side, k, reaction_side, names, r, index_in_reaction_side) ==
    IF r.err # "none" THEN [err |-> r.err, val |-> <<>>]
    ELSE IF index_in_reaction_side = 0
      THEN [err |-> "ValueError: not in list", val |-> <<>>]
    ELSE FillSide(species_split, i_side, k + 1,
                  [reaction_side EXCEPT ![index_in_reaction_side] =
                      SideEntry(@, i_side, r.coeff)],
                  names)

FillSide(species_split, i_side, k, reaction_side, names) ==
    IF k > Len(species_split) THEN [err |-> "none", val |-> reaction_side]
    ELSE FillTerm(species_split, i_side, k, reaction_side, names,
                  GetSpecieAndStoc(species_split[k], names),
                  IndexOf(names, GetSpecieAndStoc(species_split[k], names).name))

\* one side of the central split: np.zeros, then the terms if side != ''
ParseSide(side, i_side, names) ==
    IF side = <<>> THEN [err |-> "none", val |-> Zeros(Len(names))]
    ELSE FillSide(Split(side, <<"+">>), i_side, 1, Zeros(Len(names)), names)

\* the loop of _parse_reaction over the sides, from side k on (i_side = k - 1):
\* AppendSide appends the vector r of side k to reaction
RECURSIVE ParseSides(_, _, _, _)
RECURSIVE AppendSide(_, _, _, _, _)
AppendSide(central_split, k, reaction, names, r) ==
    IF r.err # "none" THEN [err |-> r.err, val |-> <<>>]
    ELSE ParseSides(central_split, k + 1, Append(reaction, r.val), names)

ParseSides(central_split, k, reaction, names) ==
    IF k > Len(central_split) THEN [err |-> "none", val |-> reaction]
    ELSE AppendSide(central_split, k, reaction, names,
                    ParseSide(central_split[k], k - 1, names))

Reversible == <<"<", "-", ">">>
Irreversible == <<"-", ">">>

\* the separator is looked for in reaction_str, not in clean_reaction
Separator(str) == IF Contains(str, Reversible) THEN Reversible ELSE Irreversible

MirrorNoSwap(reaction) == <<Neg(reaction[1]), Neg(reaction[2])>>

\* ( -1*reaction[ 1 ], -1*reaction[ 0 ] )
Mirror(reaction) == <<Neg(reaction[2]), Neg(reaction[1])>>

\* the end of _parse_reaction: r.val is the tuple of the sides' vectors
ReactionTerms(separator, r) ==
    IF r.err # "none" THEN [err |-> r.err, val |-> <<>>]
    ELSE IF separator = Reversible
      THEN [err |-> "none", val |-> <<r.val, Mirror(r.val)>>]
    ELSE [err |-> "none", val |-> <<r.val>>]

\* _parse_reaction: the list of one or two terms of a reaction string
ParseReaction(str, names) ==
    ReactionTerms(Separator(str),
                  ParseSides(Split(RemoveSpaces(str), Separator(str)), 1, <<>>, names))

\* "k{}{}".format( modif, i+1 ), i the 0-based index of the reaction and j
\* the 0-based index of the rate in its rate list
RateNameZeroBased(i, j) == <<"k">> \o (IF j = 0 THEN <<>> ELSE <<"-">>) \o <<ToString(i)>>

RateName(i, j) == <<"k">> \o (IF j = 0 THEN <<>> ELSE <<"-">>) \o <<ToString(i + 1)>>

\* the inner loop of _get_rates over rate_list, from rate j (1-based) on:
\* AddRate sets rates[ rate_name ] = float( rate ), f the float
RECURSIVE AddRates(_, _, _, _)
RECURSIVE AddRate(_, _, _, _, _)
AddRate(acc, i, rate_list, j, f) ==
    IF f.err # "none"
    THEN [err |-> "ValueError: could not convert string to float", val |-> acc.val]
    ELSE AddRates([err |-> "none",
                   val |-> DictSet(acc.val, RateName(i - 1, j - 1), f.val)],
                  i, rate_list, j + 1)

AddRates(acc, i, rate_list, j) ==
    IF acc.err # "none" \/ j > Len(rate_list) THEN acc
    ELSE AddRate(acc, i, rate_list, j, Float(rate_list[j], 1))

\* the outer loop of _get_rates over the reactions, from reaction i (1-based) on
RECURSIVE GetRatesFrom(_, _, _)
GetRatesFrom(acc, json, i) ==
    IF acc.err # "none" \/ i > Len(json) THEN acc
    ELSE GetRatesFrom(AddRates(acc, i, json[i][2], 1), json, i + 1)

\* _get_rates
GetRates(json) == GetRatesFrom([err |-> "none", val |-> <<>>], json, 1)

\* _get_reactions: the loop from reaction i (1-based) on; AddReaction sets
\* reactions[ reaction ] to the parsed terms r
RECURSIVE GetReactionsFrom(_, _, _, _)
RECURSIVE AddReaction(_, _, _, _, _)
AddReaction(acc, json, i, names, r) ==
    IF r.err # "none" THEN [err |-> r.err, val |-> acc.val]
    ELSE GetReactionsFrom([err |-> "none", val |-> DictSet(acc.val, json[i][1], r.val)],
                          json, i + 1, names)

GetReactionsFrom(acc, json, i, names) ==
    IF acc.err # "none" \/ i > Len(json) THEN acc
    ELSE AddReaction(acc, json, i, names, ParseReaction(json[i][1], names))

GetReactions(json, names) == GetReactionsFrom([err |-> "none", val |-> <<>>], json, 1, names)

\* concentrations are counted in units of 10^-9
Nano == Pow(10, 9)

\* OrderedDict(map(lambda kv: (kv[0], float(kv[1])), species.items())): the
\* loop from species i on; AddX0 sets the entry of species i to the float f
RECURSIVE GetX0From(_, _, _)
RECURSIVE AddX0(_, _, _, _)
AddX0(acc, species, i, f) ==
    IF f.err # "none"
    THEN [err |-> "ValueError: could not convert string to float", val |-> acc.val]
    ELSE GetX0From([err |-> "none", val |-> DictSet(acc.val, species[i][1], f.val)],
                   species, i + 1)

GetX0From(acc, species, i) ==
    IF acc.err # "none" \/ i > Len(species) THEN acc
    ELSE AddX0(acc, species, i, Float(species[i][2], Nano))

GetX0(species) == GetX0From([err |-> "none", val |-> <<>>], species, 1)

----------------------------------------------------------------------------
(* massActionCRN *)

RECURSIVE SumSeq(_)
SumSeq(v) == IF v = <<>> THEN 0 ELSE v[1] + SumSeq(Tail(v))

\* np.isclose(a, b) with its default rtol = 1e-05 and atol = 1e-08, in nano
\* units: abs(a - b) <= atol + rtol * abs(b)
IsCloseAtolOnly(a, b) == Abs(a - b) <= Nano \div Pow(10, 8)

IsClose(a, b) == Abs(a - b) <= Nano \div Pow(10, 8) + Abs(b) \div Pow(10, 5)

\* _check_x0_np: TRUE when no exception is raised
CheckX0(v) == IsClose(SumSeq(v), Nano)

\* reduce( lambda a,b: a + b, lists ) on a non-empty list of lists
RECURSIVE Concat(_)
Concat(lists) == IF Len(lists) = 1 THEN lists[1]
                 ELSE Concat(SubSeq(lists, 1, Len(lists) - 1)) \o lists[Len(lists)]

\* _get_reaction_list
GetReactionList(reacs) == Concat(Values(reacs))

\* reduce(lambda a,b: a+b, x) on the tuple of vectors of one term
RECURSIVE SumVectors(_)
SumVectors(term) == IF Len(term) = 1 THEN term[1]
                    ELSE VecAdd(SumVectors(SubSeq(term, 1, Len(term) - 1)), term[Len(term)])

\* np.array( rows ).T
Transpose(rows) ==
    [s \in 1..Len(rows[1]) |-> [j \in 1..Len(rows) |-> rows[j][s]]]

GetGammaNoTranspose(terms) == [j \in 1..Len(terms) |-> SumVectors(terms[j])]

\* _get_gamma
GetGamma(terms) == Transpose([j \in 1..Len(terms) |-> SumVectors(terms[j])])

\* np.vstack( [ r[ 0 ] for r in self._reaction_list] )
GetReactantsMatrix(terms) == [j \in 1..Len(terms) |-> terms[j][1]]

\* a * b on vectors, with numpy's broadcasting of a length-1 operand
Broadcast(a, b) ==
    IF Len(a) = Len(b) THEN [err |-> "none", val |-> [j \in 1..Len(a) |-> a[j] * b[j]]]
    ELSE IF Len(b) = 1 THEN [err |-> "none", val |-> [j \in 1..Len(a) |-> a[j] * b[1]]]
    ELSE IF Len(a) = 1 THEN [err |-> "none", val |-> [j \in 1..Len(b) |-> a[1] * b[j]]]
    ELSE [err |-> "ValueError: operands could not be broadcast together", val |-> <<>>]

RECURSIVE ProdSeq(_)
ProdSeq(v) == IF v = <<>> THEN 1 ELSE v[1] * ProdSeq(Tail(v))

\* (x**abs(self._reactants_matrix)).prod(axis = 1)
RateLaw(state, matrix) ==
    [j \in 1..Len(matrix) |->
        ProdSeq([s \in 1..Len(state) |-> Pow(state[s], Abs(matrix[j][s]))])]

\* matrix.dot( v )
Dot(matrix, v) ==
    IF \E s \in 1..Len(matrix) : Len(matrix[s]) # Len(v)
    THEN [err |-> "ValueError: shapes not aligned", val |-> <<>>]
    ELSE [err |-> "none",
          val |-> [s \in 1..Len(matrix) |->
                      SumSeq([j \in 1..Len(v) |-> matrix[s][j] * v[j]])]]

\* return self._gamma.dot( speed_vector )
DotSpeed(speed_vector) ==
    IF speed_vector.err # "none" THEN speed_vector ELSE Dot(gamma, speed_vector.val)

FNoRates(state, t) == Dot(gamma, RateLaw(state, reactants_matrix))

\* the function f(x, t0) returned by _mass_action_dynamic
F(state, t) == DotSpeed(Broadcast(RateLaw(state, reactants_matrix), rates_np))

NoCRN == [x0_np |-> <<>>, rates_np |-> <<>>, reaction_list |-> <<>>,
          reactants_matrix |-> <<>>, gamma |-> <<>>]

\* lines 214-218 of massActionCRN.__init__: the fields of the new object
Build(x0np, ratesnp, terms) ==
    [err |-> "none",
     crn |-> [x0_np |-> x0np,
              rates_np |-> ratesnp,
              reaction_list |-> terms,
              reactants_matrix |-> GetReactantsMatrix(terms),
              gamma |-> GetGamma(terms)]]

\* massActionCRN.__init__: the fields of the new object, or the exception
Construct(x0v, ratesv, reacs) ==
    IF ~CheckX0(Values(x0v))
      THEN [err |-> "TypeError: initial concentrations do not sum to 1", crn |-> NoCRN]
    ELSE IF Len(reacs) = 0
      THEN [err |-> "TypeError: reduce() of empty sequence", crn |-> NoCRN]
    ELSE Build(Values(x0v), Values(ratesv), GetReactionList(reacs))

\* the fields of the parser and of the model when parse ends, c the outcome
\* of the construction
Outcome(names, x0v, ratesv, reacs, c) ==
    [err |-> c.err, species_name |-> names, x0 |-> x0v, rates |-> ratesv,
     reactions |-> reacs, crn |-> c.crn]

\* massActionJSON.parse: x0r, rr and re are the outcomes of lines 66, 69 and 70
ParseOutcome(names, x0r, rr, re) ==
    IF x0r.err # "none"
      THEN Outcome(names, <<>>, <<>>, <<>>, [err |-> x0r.err, crn |-> NoCRN])
    ELSE IF rr.err # "none"
      THEN Outcome(names, x0r.val, <<>>, <<>>, [err |-> rr.err, crn |-> NoCRN])
    ELSE IF re.err # "none"
      THEN Outcome(names, x0r.val, rr.val, <<>>, [err |-> re.err, crn |-> NoCRN])
    ELSE Outcome(names, x0r.val, rr.val, re.val, Construct(x0r.val, rr.val, re.val))

-----------------------------------------------------------------------------
(* Inputs *)

MaxReactions == 2
MaxTokens == 5

X == <<"X">>
Y == <<"Y">>
Z == <<"Z">>

\* the reaction strings of the docstring example, and one with two separators
R1 == <<"2","X"," ","+"," ","3","Y"," ","<","-",">"," ","Z">>
R2 == <<"2","X"," ","-",">"," ","Y"," ","+"," ","Z">>
R3 == <<"X"," ","-",">"," ">>
R4 == <<"Z"," "," ","+"," ","5","X"," ","<","-",">"," ","Y">>
R5 == <<"X"," ","-",">"," ","Y"," ","-",">"," ","Z">>

ModelStrings == {R1, R2, R3, R4, R5}
RateStrings == {<<"2">>, <<"3">>}
RateLists == {<<a>> : a \in RateStrings} \cup {<<a, b>> : a \in RateStrings, b \in RateStrings}
Entries == {<<r, l>> : r \in ModelStrings, l \in RateLists}

\* the ordered mappings of at most n reactions; a mapping has unique keys
RECURSIVE Mappings(_)
Mappings(n) ==
    IF n = 0 THEN {<<>>}
    ELSE LET shorter == Mappings(n - 1)
         IN  shorter \cup
             {Append(m, e) : <<m, e>> \in
                 {<<m, e>> \in shorter \X Entries :
                     /\ Len(m) = n - 1
                     /\ \A i \in 1..Len(m) : m[i][1] # e[1]}}

SpeciesOf(a, b, c) == <<<<X, a>>, <<Y, b>>, <<Z, c>>>>

Half == <<"0",".","5">>
Quarter == <<"0",".","2","5">>

\* the species of the docstring example, and one with concentrations summing to 0.9
DocSpecies == SpeciesOf(Half, Quarter, Quarter)
ModelSpecies == {DocSpecies, SpeciesOf(<<"0",".","4">>, Quarter, Quarter)}

\* concentrations for the third species that put the sum at 1, 0.999999995,
\* 0.99999, 0.999989989, 1.0000001, 1.00002, 0.9 and 0.75
X0Strings == {Half, Quarter,
              <<"0",".","2","4","9","9","9","9","9","9","5">>,
              <<"0",".","2","4","9","9","9">>,
              <<"0",".","2","4","9","9","8","9","9","8","9">>,
              <<"0",".","2","5","0","0","0","0","1">>,
              <<"0",".","2","5","0","0","2">>,
              <<"0",".","1","5">>,
              <<"0">>}
X0Species == {SpeciesOf(a, b, c) : a \in {Half, Quarter}, b \in X0Strings, c \in X0Strings}

DocReactions == <<<<R1, <<<<"2">>, <<"3">>>>>>, <<R2, <<<<"3">>>>>>>>

Tokens == {<<"X">>, <<"2", "X">>, <<"Y">>, <<"W">>, <<"+">>, <<"-", ">">>,
           <<"<", "-", ">">>, <<" ">>}

\* the strings made of at most n tokens
RECURSIVE TokenStrings(_)
TokenStrings(n) ==
    IF n = 0 THEN {<<>>}
    ELSE LET shorter == TokenStrings(n - 1)
         IN  shorter \cup {s \o tok : s \in shorter, tok \in Tokens}

\* terms with a signed coefficient: float() accepts a sign
MaxSignedTokens == 4
SignedTokens == {<<"X">>, <<"-", "2", "X">>, <<"2", "Y">>, <<"+">>, <<"-", ">">>,
                 <<"<", "-", ">">>}

\* the strings made of at most n signed tokens
RECURSIVE SignedStrings(_)
SignedStrings(n) ==
    IF n = 0 THEN {<<>>}
    ELSE LET shorter == SignedStrings(n - 1)
         IN  shorter \cup {s \o tok : s \in shorter, tok \in SignedTokens}

XStates == {<<0, 1, 2>>, <<1, 1, 1>>, <<2, 3, 1>>, <<3, 0, 2>>}
Times == {0, 7}

----------------------------------------------------------------------------
(* Operations *)

Blank ==
    /\ pc = "start" /\ err = "none"
    /\ x0_np = <<>> /\ rates_np = <<>> /\ reaction_list = <<>>
    /\ reactants_matrix = <<>> /\ gamma = <<>>
    /\ rates = <<>> /\ reactions = <<>>
    /\ parsed = <<>> /\ x = <<>> /\ t0 = 0 /\ dx = <<>>

\* a massActionJSON built from a specification, parse not yet called
Init ==
    /\ json_species \in ModelSpecies
    /\ json_reactions \in Mappings(MaxReactions) \ {<<>>}
    /\ species_name = <<>> /\ x0 = <<>>
    /\ reaction_str = <<>>
    /\ Blank

InitX0 ==
    /\ json_species \in X0Species
    /\ json_reactions = DocReactions
    /\ species_name = <<>> /\ x0 = <<>>
    /\ reaction_str = <<>>
    /\ Blank

\* a massActionJSON whose species are set (lines 65-67 of parse), about to
\* parse one reaction string
InitReaction ==
    /\ json_species = DocSpecies
    /\ json_reactions = <<>>
    /\ species_name = Keys(DocSpecies) /\ x0 = GetX0(DocSpecies).val
    /\ reaction_str \in TokenStrings(MaxTokens)
    /\ Blank

\* the caller's view when parse ends with outcome o
ParseEnds(o) ==
    /\ species_name' = o.species_name
    /\ x0' = o.x0
    /\ rates' = o.rates
    /\ reactions' = o.reactions
    /\ x0_np' = o.crn.x0_np
    /\ rates_np' = o.crn.rates_np
    /\ reaction_list' = o.crn.reaction_list
    /\ reactants_matrix' = o.crn.reactants_matrix
    /\ gamma' = o.crn.gamma
    /\ err' = o.err
    /\ pc' = IF o.err = "none" THEN "returned" ELSE "raised"

\* massActionJSON.parse, the construction of the massActionCRN included
Parse ==
    /\ pc = "start"
    /\ ParseEnds(ParseOutcome(Keys(json_species), GetX0(json_species),
                              GetRates(json_reactions),
                              GetReactions(json_reactions, Keys(json_species))))
    /\ UNCHANGED <<json_species, json_reactions, reaction_str, parsed, x, t0, dx>>

FEnds(r) == dx' = r.val /\ err' = r.err

\* one call f(x, t0) of the function _mass_action_dynamic returned
Evaluate ==
    /\ pc \in {"returned", "evaluated"}
    /\ \E state \in XStates, t \in Times :
          /\ x' = state /\ t0' = t
          /\ FEnds(F(state, t))
    /\ pc' = "evaluated"
    /\ UNCHANGED <<json_species, json_reactions, species_name, x0, rates, reactions,
                   x0_np, rates_np, reaction_list, reactants_matrix, gamma,
                   reaction_str, parsed>>

ParseReactionEnds(r) ==
    /\ parsed' = r.val /\ err' = r.err
    /\ pc' = IF r.err = "none" THEN "returned" ELSE "raised"

\* one call of _parse_reaction( reaction_str )
ParseReactionCall ==
    /\ pc = "start"
    /\ ParseReactionEnds(ParseReaction(reaction_str, species_name))
    /\ UNCHANGED <<json_species, json_reactions, species_name, x0, rates, reactions,
                   x0_np, rates_np, reaction_list, reactants_matrix, gamma,
                   reaction_str, x, t0, dx>>

Next == Parse \/ Evaluate
Spec == Init /\ [][Next]_vars

NextX0 == Parse
SpecX0 == InitX0 /\ [][NextX0]_vars

NextReaction == ParseReactionCall
SpecReaction == InitReaction /\ [][NextReaction]_vars

\* as InitReaction, the reaction string drawn from the signed terms
InitSigned ==
    /\ json_species = DocSpecies
    /\ json_reactions = <<>>
    /\ species_name = Keys(DocSpecies) /\ x0 = GetX0(DocSpecies).val
    /\ reaction_str \in SignedStrings(MaxSignedTokens)
    /\ Blank

NextSigned == ParseReactionCall
SpecSigned == InitSigned /\ [][NextSigned]_vars

----------------------------------------------------------------------------
(* Vocabulary of the properties *)

\* a model was returned to the caller
Returned == pc \in {"returned", "evaluated"}

\* the exceptions of the parser: the two raised by _get_specie_and_stoc and
\* float's on a coefficient that is no number
ParseError == {"TypeError: No specie found",
               "TypeError: specie not found in species list",
               "ValueError: could not convert string to float"}

\* the sides of reaction_str around its central separator, and their terms
SidesOf(str) == Split(RemoveSpaces(str), Separator(str))
TermsOf(side) == IF side = <<>> THEN <<>> ELSE Split(side, <<"+">>)

NoLetter(term) == \A i \in 1..Len(term) : term[i] \notin Alpha
NameOf(term) ==
    SubSeq(term, CHOOSE i \in 1..Len(term) :
                    term[i] \in Alpha /\ \A k \in 1..(i - 1) : term[k] \notin Alpha,
           Len(term))
CoeffOf(term) == IF term[1] \in Alpha THEN 1
                 ELSE Float(SubSeq(term, 1, Len(term) - Len(NameOf(term))), 1).val

\* the entry at species s of the vector of side number i (1 = reactants):
\* the signed coefficient of the last term of the side that names s, 0 when
\* no term does
LastEntry(side, i, s) ==
    LET terms == TermsOf(side)
        ks == {k \in 1..Len(terms) : NameOf(terms[k]) = species_name[s]}
        last == CHOOSE k \in ks : \A m \in ks : m <= k
    IN  IF ks = {} THEN 0
        ELSE IF i = 1 THEN 0 - CoeffOf(terms[last]) ELSE CoeffOf(terms[last])

\* the number of occurrences of "->" in s ("<->" holds one)
RECURSIVE Arrows(_)
Arrows(s) == IF Len(s) < 2 THEN 0
             ELSE (IF SubSeq(s, 1, 2) = Irreversible THEN 1 ELSE 0) + Arrows(Tail(s))

\* the <<reaction, direction>> of each term of the flattened list, in order
RECURSIVE Origins(_, _)
Origins(reacs, r) ==
    IF r > Len(reacs) THEN <<>>
    ELSE [d \in 1..Len(reacs[r][2]) |-> <<r, d>>] \o Origins(reacs, r + 1)

\* the <<reaction, position>> of each declared rate, in declaration order
RECURSIVE Declared(_, _)
Declared(json, r) ==
    IF r > Len(json) THEN <<>>
    ELSE [d \in 1..Len(json[r][2]) |-> <<r, d>>] \o Declared(json, r + 1)

----------------------------------------------------------------------------
(* Properties *)

\* C1: after parse, the flattened list of directional terms is as long as
\* the rate mapping and, for every j, the rate applied to term j is the rate
\* declared for the reaction and the direction of term j.
C1_RateOrdering ==
    Returned =>
        /\ Len(reaction_list) = Len(rates)
        /\ \A j \in 1..Len(reaction_list) :
              LET o == Origins(reactions, 1)[j]
              IN  /\ o[2] <= Len(json_reactions[o[1]][2])
                  /\ j <= Len(rates_np)
                  /\ rates_np[j] = Float(json_reactions[o[1]][2][o[2]], 1).val

\* C2: _parse_reaction returns two terms when the string contains "<->" and
\* one otherwise; the first is the forward term (reactants of the left side,
\* products of the right side) and the second is its mirror
\* (-product, -reactant).
C2_TermsAndMirror ==
    (pc = "returned" /\ reaction_str # <<>>) =>
        /\ Len(parsed) = (IF Contains(reaction_str, Reversible) THEN 2 ELSE 1)
        /\ Len(parsed[1]) >= 2 =>
              \A s \in 1..Len(species_name) :
                  /\ parsed[1][1][s] = LastEntry(SidesOf(reaction_str)[1], 1, s)
                  /\ parsed[1][2][s] = LastEntry(SidesOf(reaction_str)[2], 2, s)
        /\ Contains(reaction_str, Reversible) =>
              /\ Len(parsed[2]) = 2
              /\ \A s \in 1..Len(species_name) :
                    /\ parsed[2][1][s] = 0 - parsed[1][2][s]
                    /\ parsed[2][2][s] = 0 - parsed[1][1][s]

C2_Witness ==
    /\ pc = "returned"
    /\ Contains(reaction_str, Reversible)
    /\ parsed[1][1] = <<-2, 0, 0>>
    /\ parsed[1][2] = <<0, 1, 0>>
    /\ parsed[2] = <<<<0, -1, 0>>, <<2, 0, 0>>>>

\* C3 as stated: the initial-state check passes exactly when the
\* concentrations sum to 1.0 within an absolute tolerance of 1e-8.
C3_AbsoluteTolerance ==
    pc # "start" =>
        (Returned <=> Abs(SumSeq(Values(x0)) - Nano) <= Nano \div Pow(10, 8))

\* C3 amended: the initial-state check passes exactly when the
\* concentrations sum to 1.0 within 1e-8 + 1e-5 * 1.0, the default absolute
\* plus relative tolerance of np.isclose; otherwise construction raises the
\* TypeError of _check_x0_np.
C3_IsCloseTolerance ==
    pc # "start" =>
        /\ Returned <=> Abs(SumSeq(Values(x0)) - Nano) <= Nano \div Pow(10, 8) + Nano \div Pow(10, 5)
        /\ ~Returned => err = "TypeError: initial concentrations do not sum to 1"

C3_Witness ==
    /\ pc = "returned"
    /\ SumSeq(x0_np) = Nano - 10000

\* C4: a reaction string that does not hold exactly one "->" or "<->"
\* (no separator, or more than one) is rejected by _parse_reaction.
C4_MalformedRejected ==
    (pc # "start" /\ Arrows(RemoveSpaces(reaction_str)) # 1) =>
        (pc = "raised" /\ err \in ParseError /\ parsed = <<>>)

\* C5: parsing a reaction fails with a parse error and returns nothing
\* whenever one of its terms holds no letter or names a species that is not
\* declared.
C5_BadTermRejected ==
    (pc # "start" /\ reaction_str # <<>>
       /\ \E i \in 1..Len(SidesOf(reaction_str)) :
             \E k \in 1..Len(TermsOf(SidesOf(reaction_str)[i])) :
                 LET term == TermsOf(SidesOf(reaction_str)[i])[k]
                 IN  \/ NoLetter(term)
                     \/ \A s \in 1..Len(species_name) : species_name[s] # NameOf(term))
    => (pc = "raised" /\ err \in ParseError /\ parsed = <<>>)

C5_Witness ==
    /\ pc = "raised"
    /\ reaction_str = <<"X", "-", ">", "W">>
    /\ err = "TypeError: specie not found in species list"

\* C6: gamma has one row per species and one column per directional term;
\* column j is reactant_vector + product_vector of term j, and the column of
\* the reverse term of a reversible reaction is the negation of the column of
\* its forward term.
C6_GammaColumns ==
    Returned =>
        /\ Len(gamma) = Len(species_name)
        /\ \A s \in 1..Len(gamma) : Len(gamma[s]) = Len(reaction_list)
        /\ \A j \in 1..Len(reaction_list) :
              /\ Len(reaction_list[j]) = 2 =>
                    \A s \in 1..Len(gamma) :
                        gamma[s][j] = reaction_list[j][1][s] + reaction_list[j][2][s]
              /\ (Origins(reactions, 1)[j][2] = 2 /\ Len(reaction_list[j - 1]) = 2) =>
                    \A s \in 1..Len(gamma) : gamma[s][j] = 0 - gamma[s][j - 1]

C6_Witness ==
    /\ Returned
    /\ json_reactions[1][1] = R1
    /\ <<gamma[1][1], gamma[2][1], gamma[3][1]>> = <<-2, -3, 1>>
    /\ <<gamma[1][2], gamma[2][2], gamma[3][2]>> = <<2, 3, -1>>

\* C7: when every reaction declares 1 or 2 rates, the rate mapping holds one
\* entry per declared rate, in declaration order with forward before
\* reverse; the first rate of the reaction at 1-based index i is named k{i}
\* and the second k-{i}.
C7_RateNames ==
    (pc # "start" /\ \A r \in 1..Len(json_reactions) : Len(json_reactions[r][2]) \in {1, 2}) =>
        /\ Len(rates) = Len(Declared(json_reactions, 1))
        /\ \A n \in 1..Len(rates) :
              LET o == Declared(json_reactions, 1)[n]
              IN  /\ rates[n][1] = (IF o[2] = 1 THEN <<"k", ToString(o[1])>>
                                    ELSE <<"k", "-", ToString(o[1])>>)
                  /\ rates[n][2] = Float(json_reactions[o[1]][2][o[2]], 1).val

C7_Witness ==
    /\ pc = "returned"
    /\ Keys(rates) = <<<<"k", "1">>, <<"k", "-", "1">>, <<"k", "2">>>>
    /\ Values(rates) = <<2, 3, 3>>

\* C8: when the number of flattened directional terms differs from the
\* number of entries of the rate mapping, construction fails and no model is
\* returned.
C8_MismatchFails ==
    (pc # "start" /\ Len(Origins(reactions, 1)) # Len(Declared(json_reactions, 1))) =>
        pc = "raised"

\* the value gamma . v for the argument state, v[j] = rate[j] times the
\* product over the species of state^|reactant coefficient of term j|
ExpectedDx(state) ==
    [s \in 1..Len(gamma) |->
        SumSeq([j \in 1..Len(reaction_list) |->
                   gamma[s][j] * rates_np[j]
                   * ProdSeq([u \in 1..Len(state) |->
                                 Pow(state[u], Abs(reaction_list[j][1][u]))])])]

\* C9: a call f(x, t0) changes none of gamma, the reactants matrix, the rate
\* vector and the initial state, and (one rate per term) returns gamma . v,
\* which depends on x alone.
C9_Derivative ==
    [][pc' = "evaluated" =>
          /\ gamma' = gamma /\ reactants_matrix' = reactants_matrix
          /\ rates_np' = rates_np /\ x0_np' = x0_np
          /\ Len(rates_np) = Len(reaction_list) => (err' = "none" /\ dx' = ExpectedDx(x'))]_vars

C9_Witness ==
    /\ pc = "evaluated" /\ err = "none"
    /\ json_reactions = <<<<R1, <<<<"2">>, <<"3">>>>>>>>
    /\ x = <<2, 3, 1>> /\ t0 = 7
    /\ dx = <<-426, -639, 213>>

\* C10: the entry of a side's vector at a species' index is the signed
\* coefficient of the last term of that side naming the species, not the sum
\* over the terms naming it; it is 0 for a species the side does not name,
\* so an empty side gives the zero vector.
C10_LastTermWins ==
    (pc = "returned" /\ reaction_str # <<>>) =>
        \A i \in 1..Len(parsed[1]) :
            /\ Len(parsed[1][i]) = Len(species_name)
            /\ \A s \in 1..Len(species_name) :
                  parsed[1][i][s] = LastEntry(SidesOf(reaction_str)[i], i, s)

C10_Witness ==
    /\ pc = "returned"
    /\ reaction_str = <<"X", "+", "2", "X", "-", ">", "Y">>
    /\ parsed = <<<<<<-2, 0, 0>>, <<0, 1, 0>>>>>>

\* C11: every directional term that _parse_reaction returns for a string
\* of two sides around one separator, the mirrored term of a reversible
\* reaction included, has a reactant vector with one entry per species, all
\* <= 0, and a product vector with one entry per species, all >= 0.
C11_SignConvention ==
    (pc = "returned" /\ reaction_str # <<>> /\ Len(SidesOf(reaction_str)) = 2) =>
        \A n \in 1..Len(parsed) :
            /\ Len(parsed[n]) = 2
            /\ Len(parsed[n][1]) = Len(species_name)
            /\ Len(parsed[n][2]) = Len(species_name)
            /\ \A s \in 1..Len(species_name) :
                  parsed[n][1][s] <= 0 /\ parsed[n][2][s] >= 0

====
